---------------------------- MODULE Spec2Model ----------------------------
(***************************************************************************)
(* Quick Election Service (backend/main.py): the in-memory PollStore, its  *)
(* lock, and the request handlers that call it from concurrent worker      *)
(* threads.  Strings are sequences of one-character strings.               *)
(***************************************************************************)
EXTENDS Integers, Sequences, FiniteSets, TLC

(***************************************************************************)
(* Bounds of the model.                                                    *)
(***************************************************************************)
\* polls the store may hold
MaxPolls == 2
\* largest reading of the wall clock
MaxClock == 1
\* requests issued in one behaviour
MaxCalls == 4
\* requests issued in one behaviour of the specification with fairness
MaxFairCalls == 3

\* worker threads serving requests
Threads == {"t1", "t2"}

(***************************************************************************)
(* Characters and strings.                                                 *)
(***************************************************************************)
\* the characters in use, in code point order
Alphabet == <<" ", "A", "B", "N", "O", "a", "b", "n", "o">>

UpperCase == <<"A", "B", "N", "O">>
LowerCase == <<"a", "b", "n", "o">>

Ord(c) == CHOOSE i \in 1..Len(Alphabet) : Alphabet[i] = c

IsSpace(c) == c = " "

LowerChar(c) ==
    IF \E i \in 1..Len(UpperCase) : UpperCase[i] = c
    THEN LowerCase[CHOOSE i \in 1..Len(UpperCase) : UpperCase[i] = c]
    ELSE c

\* str.lower()
Lower(s) == [i \in 1..Len(s) |-> LowerChar(s[i])]

RECURSIVE LStrip(_)
LStrip(s) ==
    IF s # <<>> /\ IsSpace(Head(s)) THEN LStrip(Tail(s)) ELSE s

RECURSIVE RStrip(_)
RStrip(s) ==
    IF s # <<>> /\ IsSpace(s[Len(s)]) THEN RStrip(SubSeq(s, 1, Len(s) - 1)) ELSE s

\* str.strip()
Strip(s) == RStrip(LStrip(s))

\* a < b for Python strings: lexicographic by code point
RECURSIVE StrLess(_, _)
StrLess(a, b) ==
    IF b = <<>> THEN FALSE
    ELSE IF a = <<>> THEN TRUE
    ELSE IF Ord(Head(a)) # Ord(Head(b)) THEN Ord(Head(a)) < Ord(Head(b))
    ELSE StrLess(Tail(a), Tail(b))

(***************************************************************************)
(* Program constants.                                                      *)
(***************************************************************************)
ADMIN_KEYWORD == "TrentAdmin"

OPEN == "open"
CLOSED == "closed"

\* Optional[datetime] = None
None == -1

HTTP_200_OK == 200
HTTP_201_CREATED == 201
HTTP_400_BAD_REQUEST == 400
HTTP_403_FORBIDDEN == 403
HTTP_404_NOT_FOUND == 404
HTTP_422_UNPROCESSABLE == 422

PollNotFound == "Poll not found"
PollIsClosed == "Poll is closed"
AlreadyVoted == "This voter has already voted in this poll"
OptionNotFound == "Option not found"
AdminRequired == "Admin privileges required"
Invalid == "validation error"

(***************************************************************************)
(* Request inputs.                                                         *)
(***************************************************************************)
\* X-Admin-Key headers: absent or empty, the keyword, another word
AdminKeys == {"", ADMIN_KEYWORD, "trentadmin"}

Titles == {<<"A">>, <<" ">>}

OptionLists ==
    { <<  <<"b">>, <<" ">>, <<"B", " ">>, <<"A">>  >>,
      <<  <<"A">>, <<" ", "a">>  >> }

VoterNames ==
    { <<"A", "n", "n">>, <<" ", "a", "n", "n", " ">>, <<"B", "o", "b">> }

\* uuid4().hex for the k-th poll, and for the i-th option of poll p
IdStride == 10
PollUuid(k) == k
OptionUuid(p, i) == p * IdStride + i

\* an id that no poll and no option has
UnknownId == 0

(***************************************************************************)
(* Request validation (pydantic validators).  A validator returns the      *)
(* cleaned value; the request is rejected when the matching Valid...       *)
(* predicate is false.                                                     *)
(***************************************************************************)
validate_title(value) == Strip(value)
ValidTitle(value) == Strip(value) # <<>>

validate_voter_name(value) == Strip(value)
ValidVoterName(value) == Strip(value) # <<>>

\* cleaned = [opt.strip() for opt in value if opt.strip()]
RECURSIVE Cleaned(_)
Cleaned(value) ==
    IF value = <<>> THEN <<>>
    ELSE IF Strip(Head(value)) # <<>>
         THEN <<Strip(Head(value))>> \o Cleaned(Tail(value))
         ELSE Cleaned(Tail(value))

\* the loop that keeps the first label of each lowercase form
RECURSIVE UniqueFrom(_, _)
UniqueFrom(cleaned, seen) ==
    IF cleaned = <<>> THEN <<>>
    ELSE IF Lower(Head(cleaned)) \notin seen
         THEN <<Head(cleaned)>> \o
              UniqueFrom(Tail(cleaned), seen \cup {Lower(Head(cleaned))})
         ELSE UniqueFrom(Tail(cleaned), seen)

\* mutant: labels are compared as written
RECURSIVE UniqueFromCaseSensitive(_, _)
UniqueFromCaseSensitive(cleaned, seen) ==
    IF cleaned = <<>> THEN <<>>
    ELSE IF Head(cleaned) \notin seen
         THEN <<Head(cleaned)>> \o
              UniqueFromCaseSensitive(Tail(cleaned), seen \cup {Head(cleaned)})
         ELSE UniqueFromCaseSensitive(Tail(cleaned), seen)

validate_options_case_sensitive(value) == UniqueFromCaseSensitive(Cleaned(value), {})

validate_options(value) == UniqueFrom(Cleaned(value), {})

\* mutant: one option is enough
ValidOptionsOneEnough(value) == Len(validate_options(value)) >= 1

\* if len(unique) < 2: raise ValueError
ValidOptions(value) == Len(validate_options(value)) >= 2

\* mutant: any key is taken for the keyword
require_admin_any_key(x_admin_key) == x_admin_key # ""

\* require_admin raises unless the header equals the keyword
require_admin(x_admin_key) == x_admin_key # "" /\ x_admin_key = ADMIN_KEYWORD

(***************************************************************************)
(* Records of the store.                                                   *)
(***************************************************************************)
PollOptionRecord(id, label) == [id |-> id, label |-> label, votes |-> 0]

\* mutant: a new poll carries a closing time
PollRecordClosedAtSet(id, title, created_at, options) ==
    [id |-> id, title |-> title, status |-> OPEN, created_at |-> created_at,
     closed_at |-> created_at, options |-> options, voters |-> <<>>]

\* options: the dict's values in insertion order; voters: key -> option id
PollRecord(id, title, created_at, options) ==
    [id |-> id, title |-> title, status |-> OPEN, created_at |-> created_at,
     closed_at |-> None, options |-> options, voters |-> <<>>]

\* dict.get on the options of a record: the index of the option, 0 if absent
OptionIndex(record, option_id) ==
    IF \E i \in 1..Len(record.options) : record.options[i].id = option_id
    THEN CHOOSE i \in 1..Len(record.options) : record.options[i].id = option_id
    ELSE 0

\* voters as a function from the set of keys
HasVoted(record, voter_key) == voter_key \in DOMAIN record.voters

\* mutant: the key keeps its case
VoterKeyNoLower(voter_name) == Strip(voter_name)

\* voter_key = voter_name.strip().lower()
VoterKey(voter_name) == Lower(Strip(voter_name))

(***************************************************************************)
(* Sorting (list.sort is stable, also with reverse=True).                  *)
(***************************************************************************)
\* options.sort(key=lambda opt: opt.label.lower())
RECURSIVE InsertOption(_, _)
InsertOption(x, s) ==
    IF s = <<>> THEN <<x>>
    ELSE IF StrLess(Lower(x.label), Lower(Head(s).label))
         THEN <<x>> \o s
         ELSE <<Head(s)>> \o InsertOption(x, Tail(s))

RECURSIVE SortOptions(_)
SortOptions(s) ==
    IF s = <<>> THEN <<>>
    ELSE InsertOption(s[Len(s)], SortOptions(SubSeq(s, 1, Len(s) - 1)))

\* records.sort(key=lambda poll: poll.created_at, reverse=True), on poll ids
RECURSIVE InsertRecord(_, _, _)
InsertRecord(x, s, store) ==
    IF s = <<>> THEN <<x>>
    ELSE IF store[Head(s)].created_at < store[x].created_at
         THEN <<x>> \o s
         ELSE <<Head(s)>> \o InsertRecord(x, Tail(s), store)

RECURSIVE SortRecords(_, _)
SortRecords(s, store) ==
    IF s = <<>> THEN <<>>
    ELSE InsertRecord(s[Len(s)], SortRecords(SubSeq(s, 1, Len(s) - 1), store), store)

(***************************************************************************)
(* State.                                                                  *)
(***************************************************************************)
VARIABLES
    polls,      \* PollStore._polls: poll id -> PollRecord
    lock,       \* PollStore._lock: the thread holding it, or NoThread
    now,        \* the last reading of datetime.utcnow()
    pc,         \* each thread's position in its request
    req,        \* each thread's current request, as received
    loc,        \* each thread's local variables
    result,     \* each thread's last response
    calls,      \* requests issued so far
    accepted,   \* history: per poll, the votes counted, in order; by is the
                \* thread whose current request the vote is, if any
    overlap,    \* history: per thread, the threads that served a request
                \* while this thread served its current one
    known       \* the ids of the polls that a response has carried to a client

vars ==
    <<polls, lock, now, pc, req, loc, result, calls, accepted, overlap, known>>

\* the ids a client can send: those a response has handed out, and an
\* unknown one
PollIds == known \cup {UnknownId}
OptionIds ==
    UNION { { polls[p].options[i].id : i \in 1..Len(polls[p].options) } :
            p \in known } \cup {UnknownId}

NoThread == "none"

NoRequest ==
    [op |-> "none", x_admin_key |-> "", poll_id |-> 0, voter_name |-> <<>>,
     option_id |-> 0, title |-> <<>>, options |-> <<>>]

\* records: poll ids still to project; options: the PollOption list being
\* built; status: the status read; views: the responses built; tmp: the
\* count read by option.votes += 1
NoLocals ==
    [records |-> <<>>, options |-> <<>>, status |-> "", views |-> <<>>, tmp |-> 0]

NoResult == [code |-> 0, detail |-> "", body |-> <<>>]

Running == { t \in Threads : pc[t] \notin {"idle", "done"} }

\* the polls in creation order: dict insertion order of _polls
PollList == [k \in 1..Cardinality(DOMAIN polls) |-> PollUuid(k)]

Init ==
    /\ polls = <<>>
    /\ lock = NoThread
    /\ now = 0
    /\ pc = [t \in Threads |-> "idle"]
    /\ req = [t \in Threads |-> NoRequest]
    /\ loc = [t \in Threads |-> NoLocals]
    /\ result = [t \in Threads |-> NoResult]
    /\ calls = 0
    /\ accepted = <<>>
    /\ overlap = [t \in Threads |-> {}]
    /\ known = {}

\* datetime.utcnow(): the clock has not gone back since its last reading
utcnow(t) == t \in now..MaxClock

(***************************************************************************)
(* Handlers: a thread receives a request.  FastAPI resolves the            *)
(* require_admin dependency, then validates the body, then calls the       *)
(* handler, which calls the store.                                         *)
(***************************************************************************)
\* thread t starts serving r; next is "done" when the request is rejected
\* before the store is called
Receive(t, r, next, response) ==
    /\ pc[t] \in {"idle", "done"}
    /\ calls < MaxCalls
    /\ calls' = calls + 1
    /\ req' = [req EXCEPT ![t] = r]
    /\ loc' = [loc EXCEPT ![t] = NoLocals]
    /\ pc' = [pc EXCEPT ![t] = next]
    /\ result' = [result EXCEPT ![t] = response]
    /\ accepted' =
         [p \in DOMAIN accepted |->
            [i \in DOMAIN accepted[p] |->
               IF accepted[p][i].by = t
               THEN [accepted[p][i] EXCEPT !.by = NoThread]
               ELSE accepted[p][i]]]
    /\ overlap' =
         [u \in Threads |->
            IF next = "done" THEN (IF u = t THEN {} ELSE overlap[u])
            ELSE IF u = t THEN Running \ {t}
            ELSE IF u \in Running THEN overlap[u] \cup {t}
            ELSE overlap[u]]
    /\ UNCHANGED <<polls, lock, now, known>>

Rejected(code, detail) == [code |-> code, detail |-> detail, body |-> <<>>]

\* GET /api/polls
list_polls(t) ==
    Receive(t, [NoRequest EXCEPT !.op = "list"], "all_polls", NoResult)

\* POST /api/polls; the body is validated once require_admin has passed
create_poll(t) ==
    \E key \in AdminKeys, title \in Titles, options \in OptionLists :
      LET r == [NoRequest EXCEPT !.op = "create", !.x_admin_key = key,
                                 !.title = title, !.options = options]
      IN  IF ~require_admin(key)
          THEN Receive(t, [NoRequest EXCEPT !.op = "create", !.x_admin_key = key],
                       "done", Rejected(HTTP_403_FORBIDDEN, AdminRequired))
          ELSE IF ~(ValidTitle(title) /\ ValidOptions(options))
          THEN Receive(t, r, "done", Rejected(HTTP_422_UNPROCESSABLE, Invalid))
          ELSE /\ Cardinality(DOMAIN polls)
                    + Cardinality({u \in Threads : pc[u] = "create_poll"}) < MaxPolls
               /\ Receive(t, r, "create_poll", NoResult)

\* POST /api/polls/{poll_id}/vote
vote(t) ==
    \E poll_id \in PollIds, voter_name \in VoterNames, option_id \in OptionIds :
      LET r == [NoRequest EXCEPT !.op = "vote", !.poll_id = poll_id,
                                 !.voter_name = voter_name, !.option_id = option_id]
      IN  IF ~ValidVoterName(voter_name)
          THEN Receive(t, r, "done", Rejected(HTTP_422_UNPROCESSABLE, Invalid))
          ELSE Receive(t, r, "vote", NoResult)

\* POST /api/polls/{poll_id}/close
close_poll(t) ==
    \E key \in AdminKeys, poll_id \in PollIds :
      LET r == [NoRequest EXCEPT !.op = "close", !.x_admin_key = key,
                                 !.poll_id = poll_id]
      IN  IF ~require_admin(key)
          THEN Receive(t, [NoRequest EXCEPT !.op = "close", !.x_admin_key = key],
                       "done", Rejected(HTTP_403_FORBIDDEN, AdminRequired))
          ELSE Receive(t, r, "close_poll", NoResult)

(***************************************************************************)
(* PollStore.  with self._lock: a thread enters when the lock is free and  *)
(* leaves it free on a normal exit and on a raise.  Reads and local work   *)
(* under the lock are one step with the entry; each write to a record is   *)
(* a step of its own, since _to_response reads records without the lock.   *)
(***************************************************************************)
\* mutant: the store is entered whoever holds the lock
LockIgnored == TRUE

LockFree == lock = NoThread

\* str(exc): KeyError quotes its message
StrOfKeyError(msg) == "'Poll not found'"

\* mutant: KeyError reported like ValueError
NotFoundAsBadRequest == Rejected(HTTP_400_BAD_REQUEST, StrOfKeyError(PollNotFound))

\* the handlers' except clauses
NotFoundResponse == Rejected(HTTP_404_NOT_FOUND, StrOfKeyError(PollNotFound))
BadRequestResponse(msg) == Rejected(HTTP_400_BAD_REQUEST, msg)

\* mutant: the ledger is not consulted
vote_checks_no_duplicate(store, poll_id, voter_key, option_id) ==
    IF poll_id \notin DOMAIN store THEN PollNotFound
    ELSE IF store[poll_id].status # OPEN THEN PollIsClosed
    ELSE IF OptionIndex(store[poll_id], option_id) = 0 THEN OptionNotFound
    ELSE ""

\* mutant: the status is not consulted
vote_checks_no_status(store, poll_id, voter_key, option_id) ==
    IF poll_id \notin DOMAIN store THEN PollNotFound
    ELSE IF HasVoted(store[poll_id], voter_key) THEN AlreadyVoted
    ELSE IF OptionIndex(store[poll_id], option_id) = 0 THEN OptionNotFound
    ELSE ""

\* mutant: the option is looked up before the ledger
vote_checks_option_first(store, poll_id, voter_key, option_id) ==
    IF poll_id \notin DOMAIN store THEN PollNotFound
    ELSE IF store[poll_id].status # OPEN THEN PollIsClosed
    ELSE IF OptionIndex(store[poll_id], option_id) = 0 THEN OptionNotFound
    ELSE IF HasVoted(store[poll_id], voter_key) THEN AlreadyVoted
    ELSE ""

\* the message of the exception vote raises, "" when it raises none
vote_checks(store, poll_id, voter_key, option_id) ==
    IF poll_id \notin DOMAIN store THEN PollNotFound
    ELSE IF store[poll_id].status # OPEN THEN PollIsClosed
    ELSE IF HasVoted(store[poll_id], voter_key) THEN AlreadyVoted
    ELSE IF OptionIndex(store[poll_id], option_id) = 0 THEN OptionNotFound
    ELSE ""

\* mutant: the ledger is keyed by the name as sent
voter_key_as_sent(t) == validate_voter_name(req[t].voter_name)

\* the key PollStore.vote computes from the validated payload
voter_key(t) == VoterKey(validate_voter_name(req[t].voter_name))

\* the thread returns response; the client learns the ids in it
Return(t, response) ==
    /\ pc' = [pc EXCEPT ![t] = "done"]
    /\ result' = [result EXCEPT ![t] = response]
    /\ known' = known \cup { response.body[v].id : v \in 1..Len(response.body) }

\* the thread goes on to project records (poll ids) with _to_response
Project(t, records) ==
    /\ pc' = [pc EXCEPT ![t] = "to_response"]
    /\ loc' = [loc EXCEPT ![t] = [NoLocals EXCEPT !.records = records]]
    /\ UNCHANGED <<result, known>>

\* all_polls: copy the records under the lock, sort them
PollStore_all_polls(t) ==
    /\ pc[t] = "all_polls"
    /\ LockFree
    /\ LET records == SortRecords(PollList, polls)
       IN  IF records = <<>>
           THEN Return(t, [code |-> HTTP_200_OK, detail |-> "", body |-> <<>>])
                /\ UNCHANGED loc
           ELSE Project(t, records)
    /\ UNCHANGED <<polls, lock, now, req, calls, accepted, overlap>>

\* mutant: the new poll takes the id of the last one and replaces it
PollStore_create_poll_same_id(t) ==
    /\ pc[t] = "create_poll"
    /\ LockFree
    /\ utcnow(now')
    /\ LET poll_id == PollUuid(IF polls = <<>> THEN 1 ELSE Cardinality(DOMAIN polls))
           options == validate_options(req[t].options)
           option_records ==
               [i \in 1..Len(options) |->
                  PollOptionRecord(OptionUuid(poll_id, i), options[i])]
           poll == PollRecord(poll_id, validate_title(req[t].title), now',
                              option_records)
       IN  /\ polls' = [k \in DOMAIN polls \cup {poll_id} |->
                          IF k = poll_id THEN poll ELSE polls[k]]
           /\ accepted' = [k \in DOMAIN polls \cup {poll_id} |->
                             IF k = poll_id THEN <<>> ELSE accepted[k]]
           /\ Project(t, <<poll_id>>)
    /\ UNCHANGED <<lock, req, calls, overlap>>

\* create_poll: build the record and insert it, under the lock
PollStore_create_poll(t) ==
    /\ pc[t] = "create_poll"
    /\ LockFree
    /\ utcnow(now')
    /\ LET poll_id == PollUuid(Cardinality(DOMAIN polls) + 1)
           options == validate_options(req[t].options)
           option_records ==
               [i \in 1..Len(options) |->
                  PollOptionRecord(OptionUuid(poll_id, i), options[i])]
           poll == PollRecord(poll_id, validate_title(req[t].title), now',
                              option_records)
       IN  /\ polls' = Append(polls, poll)
           /\ accepted' = Append(accepted, <<>>)
           /\ Project(t, <<poll_id>>)
    /\ UNCHANGED <<lock, req, calls, overlap>>

\* mutant: the lock is taken by hand and not released when the lookup fails
PollStore_close_poll_lock_kept(t) ==
    /\ pc[t] = "close_poll"
    /\ LockFree
    /\ IF req[t].poll_id \notin DOMAIN polls
       THEN /\ Return(t, NotFoundResponse)
            /\ lock' = t
            /\ UNCHANGED polls
       ELSE /\ polls' = [polls EXCEPT ![req[t].poll_id].status = CLOSED]
            /\ lock' = t
            /\ pc' = [pc EXCEPT ![t] = "close_poll_closed_at"]
            /\ UNCHANGED <<result, known>>
    /\ UNCHANGED <<now, req, loc, calls, accepted, overlap>>

\* close_poll: look the poll up; poll.status = CLOSED
PollStore_close_poll(t) ==
    /\ pc[t] = "close_poll"
    /\ LockFree
    /\ IF req[t].poll_id \notin DOMAIN polls
       THEN /\ Return(t, NotFoundResponse)
            /\ UNCHANGED <<polls, lock>>
       ELSE /\ polls' = [polls EXCEPT ![req[t].poll_id].status = CLOSED]
            /\ lock' = t
            /\ pc' = [pc EXCEPT ![t] = "close_poll_closed_at"]
            /\ UNCHANGED <<result, known>>
    /\ UNCHANGED <<now, req, loc, calls, accepted, overlap>>

\* close_poll: poll.closed_at = datetime.utcnow(); leave the lock
PollStore_close_poll_closed_at(t) ==
    /\ pc[t] = "close_poll_closed_at"
    /\ utcnow(now')
    /\ polls' = [polls EXCEPT ![req[t].poll_id].closed_at = now']
    /\ lock' = NoThread
    /\ Project(t, <<req[t].poll_id>>)
    /\ UNCHANGED <<req, calls, accepted, overlap>>

\* mutant: the voter is entered in the ledger before the option is looked up
PollStore_vote_ledger_first(t) ==
    /\ pc[t] = "vote"
    /\ LockFree
    /\ LET msg == vote_checks(polls, req[t].poll_id, voter_key(t), req[t].option_id)
       IN  IF msg = PollNotFound
           THEN Return(t, NotFoundResponse) /\ UNCHANGED <<polls, lock, loc>>
           ELSE IF msg = OptionNotFound
           THEN /\ Return(t, BadRequestResponse(msg))
                /\ polls' = [polls EXCEPT ![req[t].poll_id].voters =
                               [k \in DOMAIN @ \cup {voter_key(t)} |->
                                  IF k = voter_key(t) THEN req[t].option_id ELSE @[k]]]
                /\ UNCHANGED <<lock, loc>>
           ELSE IF msg # ""
           THEN Return(t, BadRequestResponse(msg)) /\ UNCHANGED <<polls, lock, loc>>
           ELSE LET poll == polls[req[t].poll_id]
                    option == poll.options[OptionIndex(poll, req[t].option_id)]
                IN  /\ lock' = t
                    /\ loc' = [loc EXCEPT ![t].tmp = option.votes]
                    /\ pc' = [pc EXCEPT ![t] = "vote_store"]
                    /\ UNCHANGED <<polls, result, known>>
    /\ UNCHANGED <<now, req, calls, accepted, overlap>>

\* vote: the checks, then the read of option.votes += 1
PollStore_vote(t) ==
    /\ pc[t] = "vote"
    /\ LockFree
    /\ LET msg == vote_checks(polls, req[t].poll_id, voter_key(t), req[t].option_id)
       IN  IF msg = PollNotFound
           THEN Return(t, NotFoundResponse) /\ UNCHANGED <<lock, loc>>
           ELSE IF msg # ""
           THEN Return(t, BadRequestResponse(msg)) /\ UNCHANGED <<lock, loc>>
           ELSE LET poll == polls[req[t].poll_id]
                    option == poll.options[OptionIndex(poll, req[t].option_id)]
                IN  /\ lock' = t
                    /\ loc' = [loc EXCEPT ![t].tmp = option.votes]
                    /\ pc' = [pc EXCEPT ![t] = "vote_store"]
                    /\ UNCHANGED <<result, known>>
    /\ UNCHANGED <<polls, now, req, calls, accepted, overlap>>

\* vote: the write of option.votes += 1
PollStore_vote_store(t) ==
    /\ pc[t] = "vote_store"
    /\ LET poll == polls[req[t].poll_id]
           i == OptionIndex(poll, req[t].option_id)
       IN  polls' = [polls EXCEPT ![req[t].poll_id].options[i].votes = loc[t].tmp + 1]
    /\ accepted' = [accepted EXCEPT ![req[t].poll_id] =
                      Append(@, [by |-> t, voter_name |-> req[t].voter_name,
                                 option_id |-> req[t].option_id])]
    /\ pc' = [pc EXCEPT ![t] = "vote_voters"]
    /\ UNCHANGED <<lock, now, req, loc, result, calls, overlap, known>>

\* mutant: the ledger records the poll id in place of the option id
PollStore_vote_voters_poll_id(t) ==
    /\ pc[t] = "vote_voters"
    /\ LET poll == polls[req[t].poll_id]
           voters == [k \in DOMAIN poll.voters \cup {voter_key(t)} |->
                        IF k = voter_key(t) THEN req[t].poll_id ELSE poll.voters[k]]
       IN  polls' = [polls EXCEPT ![req[t].poll_id].voters = voters]
    /\ lock' = NoThread
    /\ Project(t, <<req[t].poll_id>>)
    /\ UNCHANGED <<now, req, calls, accepted, overlap>>

\* vote: poll.voters[voter_key] = option_id; leave the lock
PollStore_vote_voters(t) ==
    /\ pc[t] = "vote_voters"
    /\ LET poll == polls[req[t].poll_id]
           voters == [k \in DOMAIN poll.voters \cup {voter_key(t)} |->
                        IF k = voter_key(t) THEN req[t].option_id ELSE poll.voters[k]]
       IN  polls' = [polls EXCEPT ![req[t].poll_id].voters = voters]
    /\ lock' = NoThread
    /\ Project(t, <<req[t].poll_id>>)
    /\ UNCHANGED <<now, req, calls, accepted, overlap>>

(***************************************************************************)
(* _to_response, run without the lock: one step per read of a field that   *)
(* another thread may write.                                               *)
(***************************************************************************)
PollOption(option) == [id |-> option.id, label |-> option.label, votes |-> option.votes]

PollResponse(record, status, closed_at, options) ==
    [id |-> record.id, title |-> record.title, status |-> status,
     created_at |-> record.created_at, closed_at |-> closed_at,
     options |-> options]

\* the status code of a served request
SuccessCode(op) == IF op = "create" THEN HTTP_201_CREATED ELSE HTTP_200_OK

\* the list comprehension reads the next option of the record
to_response(t) ==
    /\ pc[t] = "to_response"
    /\ LET record == polls[Head(loc[t].records)]
           i == Len(loc[t].options) + 1
       IN  /\ loc' = [loc EXCEPT ![t].options = Append(@, PollOption(record.options[i]))]
           /\ pc' = [pc EXCEPT ![t] =
                       IF i = Len(record.options) THEN "to_response_status"
                       ELSE "to_response"]
    /\ UNCHANGED <<polls, lock, now, req, result, calls, accepted, overlap, known>>

\* status=record.status
to_response_status(t) ==
    /\ pc[t] = "to_response_status"
    /\ loc' = [loc EXCEPT ![t].status = polls[Head(loc[t].records)].status]
    /\ pc' = [pc EXCEPT ![t] = "to_response_closed_at"]
    /\ UNCHANGED <<polls, lock, now, req, result, calls, accepted, overlap, known>>

\* closed_at=record.closed_at; the response is built, with the options
\* sorted; the next record follows, or the handler returns
to_response_closed_at(t) ==
    /\ pc[t] = "to_response_closed_at"
    /\ LET record == polls[Head(loc[t].records)]
           view == PollResponse(record, loc[t].status, record.closed_at,
                                SortOptions(loc[t].options))
           views == Append(loc[t].views, view)
       IN  IF Tail(loc[t].records) = <<>>
           THEN /\ Return(t, [code |-> SuccessCode(req[t].op), detail |-> "",
                              body |-> views])
                /\ loc' = [loc EXCEPT ![t] = NoLocals]
           ELSE /\ loc' = [loc EXCEPT ![t] =
                             [NoLocals EXCEPT !.records = Tail(loc[t].records),
                                              !.views = views]]
                /\ pc' = [pc EXCEPT ![t] = "to_response"]
                /\ UNCHANGED <<result, known>>
    /\ UNCHANGED <<polls, lock, now, req, calls, accepted, overlap>>

Next ==
    \/ \E t \in Threads : list_polls(t)
    \/ \E t \in Threads : create_poll(t)
    \/ \E t \in Threads : vote(t)
    \/ \E t \in Threads : close_poll(t)
    \/ \E t \in Threads : PollStore_all_polls(t)
    \/ \E t \in Threads : PollStore_create_poll(t)
    \/ \E t \in Threads : PollStore_close_poll(t)
    \/ \E t \in Threads : PollStore_close_poll_closed_at(t)
    \/ \E t \in Threads : PollStore_vote(t)
    \/ \E t \in Threads : PollStore_vote_store(t)
    \/ \E t \in Threads : PollStore_vote_voters(t)
    \/ \E t \in Threads : to_response(t)
    \/ \E t \in Threads : to_response_status(t)
    \/ \E t \in Threads : to_response_closed_at(t)

Spec == Init /\ [][Next]_vars

\* the steps thread t takes once its handler has called the store
StoreStep(t) ==
    \/ PollStore_all_polls(t)
    \/ PollStore_create_poll(t)
    \/ PollStore_close_poll(t)
    \/ PollStore_close_poll_closed_at(t)
    \/ PollStore_vote(t)
    \/ PollStore_vote_store(t)
    \/ PollStore_vote_voters(t)
    \/ to_response(t)
    \/ to_response_status(t)
    \/ to_response_closed_at(t)

\* the same steps, with fewer requests issued
FairNext ==
    \/ \E t \in Threads : calls < MaxFairCalls /\ list_polls(t)
    \/ \E t \in Threads : calls < MaxFairCalls /\ create_poll(t)
    \/ \E t \in Threads : calls < MaxFairCalls /\ vote(t)
    \/ \E t \in Threads : calls < MaxFairCalls /\ close_poll(t)
    \/ \E t \in Threads : StoreStep(t)

\* the scheduler runs every thread that stays able to run; a thread that
\* waits for the lock is able to run when the lock is free
FairSpec ==
    Init /\ [][FairNext]_vars /\ \A t \in Threads : WF_vars(StoreStep(t))

(***************************************************************************)
(* Vocabulary of the properties.                                           *)
(***************************************************************************)
\* the failures of the store, as the handlers report them
NotFound(res) ==
    res.code = HTTP_404_NOT_FOUND /\ res.detail = StrOfKeyError(PollNotFound)
AlreadyClosed(res) == res.code = HTTP_400_BAD_REQUEST /\ res.detail = PollIsClosed
DuplicateVoter(res) == res.code = HTTP_400_BAD_REQUEST /\ res.detail = AlreadyVoted
InvalidOption(res) == res.code = HTTP_400_BAD_REQUEST /\ res.detail = OptionNotFound
Succeeded(res) == res.code \in {HTTP_200_OK, HTTP_201_CREATED}
Failed(res) ==
    NotFound(res) \/ AlreadyClosed(res) \/ DuplicateVoter(res) \/ InvalidOption(res)

\* two voter names are equal after trimming and lowercasing
SameVoter(a, b) == Lower(Strip(a)) = Lower(Strip(b))

RECURSIVE SumVotes(_)
SumVotes(options) ==
    IF options = <<>> THEN 0 ELSE Head(options).votes + SumVotes(Tail(options))

LedgerSize(record) == Cardinality(DOMAIN record.voters)

\* thread t has returned from a request of kind op
Returned(t, op) == pc[t] = "done" /\ req[t].op = op

\* the step in which thread t enters the store with its vote and the checks
\* are made
VoteDecided(t) == pc[t] = "vote" /\ pc'[t] # "vote"

\* a vote is between its first and its last write to poll p
MidVote(p) ==
    \E t \in Threads : pc[t] \in {"vote_store", "vote_voters"} /\ req[t].poll_id = p

\* the votes counted for poll p that name option_id, among the first k
Tally(p, option_id, k) ==
    Cardinality({ j \in 1..k : accepted[p][j].option_id = option_id })

\* the votes counted for poll p under a name equal to voter_name
VotesOf(p, voter_name) ==
    { j \in DOMAIN accepted[p] : SameVoter(accepted[p][j].voter_name, voter_name) }

\* the two threads served their current requests at overlapping times
Concurrent(t, u) == t # u /\ u \in overlap[t] /\ t \in overlap[u]

(***************************************************************************)
(* C1.  One vote per normalized voter per poll.  As stated: once a vote     *)
(* under a name has been applied to a poll, a vote on that poll under any  *)
(* name equal to it after trimming and lowercasing fails with              *)
(* DuplicateVoter and changes no option count.                             *)
(***************************************************************************)
C1_DuplicateAlways ==
    [][\A t \in Threads :
         (/\ VoteDecided(t)
          /\ req[t].poll_id \in DOMAIN polls
          /\ VotesOf(req[t].poll_id, req[t].voter_name) # {})
         => /\ DuplicateVoter(result'[t])
            /\ polls'[req[t].poll_id].options = polls[req[t].poll_id].options]_vars

\* C1 as amended: such a vote fails, with DuplicateVoter while the poll is
\* open and with AlreadyClosed once it is closed, and changes no option count.
C1_OneVotePerVoter ==
    [][\A t \in Threads :
         (/\ VoteDecided(t)
          /\ req[t].poll_id \in DOMAIN polls
          /\ VotesOf(req[t].poll_id, req[t].voter_name) # {})
         => /\ IF polls[req[t].poll_id].status = OPEN
               THEN DuplicateVoter(result'[t])
               ELSE AlreadyClosed(result'[t])
            /\ polls'[req[t].poll_id].options = polls[req[t].poll_id].options]_vars

\* a vote was refused as a duplicate of a vote cast under another spelling
C1_Witness ==
    \E t \in Threads :
      /\ Returned(t, "vote")
      /\ DuplicateVoter(result[t])
      /\ \E j \in VotesOf(req[t].poll_id, req[t].voter_name) :
           accepted[req[t].poll_id][j].voter_name # req[t].voter_name

(***************************************************************************)
(* C2.  Whenever the lock is free, the vote counts of every poll sum to    *)
(* the size of its voter ledger.                                           *)
(***************************************************************************)
C2_CountsEqualLedger ==
    lock = NoThread =>
      \A p \in DOMAIN polls : SumVotes(polls[p].options) = LedgerSize(polls[p])

C2_Witness ==
    /\ lock = NoThread
    /\ \E p \in DOMAIN polls :
         LedgerSize(polls[p]) = 2 /\ \A i \in 1..2 : polls[p].options[i].votes = 1

(***************************************************************************)
(* C3.  No lost update.  A vote that names an option of its poll, under a  *)
(* name no other request has voted under, succeeds if the poll is still    *)
(* open when it returns; and when no vote is in the middle of its writes,  *)
(* every option's count is the number of applied votes that name it.       *)
(***************************************************************************)
C3_NoLostUpdate ==
    /\ \A p \in DOMAIN polls :
         ~MidVote(p) =>
           \A i \in 1..Len(polls[p].options) :
             polls[p].options[i].votes
               = Tally(p, polls[p].options[i].id, Len(accepted[p]))
    /\ \A t \in Threads :
         (/\ Returned(t, "vote")
          /\ req[t].poll_id \in DOMAIN polls
          /\ polls[req[t].poll_id].status = OPEN
          /\ OptionIndex(polls[req[t].poll_id], req[t].option_id) # 0
          /\ \A j \in VotesOf(req[t].poll_id, req[t].voter_name) :
               accepted[req[t].poll_id][j].by = t)
         => /\ Succeeded(result[t])
            /\ Cardinality(VotesOf(req[t].poll_id, req[t].voter_name)) = 1

\* two votes by different voters, served at overlapping times, both succeeded
C3_Witness ==
    \E t, u \in Threads :
      /\ Concurrent(t, u)
      /\ Returned(t, "vote") /\ Returned(u, "vote")
      /\ req[t].poll_id = req[u].poll_id
      /\ ~SameVoter(req[t].voter_name, req[u].voter_name)
      /\ Succeeded(result[t]) /\ Succeeded(result[u])
      /\ SumVotes(polls[req[t].poll_id].options) = 2

(***************************************************************************)
(* C4.  Duplicate-voter race.  Of two votes on the same poll, served at    *)
(* overlapping times under names equal after normalization, each naming an *)
(* option of the poll, with the poll open throughout and no earlier vote   *)
(* under that name: one succeeds, the other fails with DuplicateVoter, and *)
(* one vote is applied.                                                    *)
(***************************************************************************)
C4_DuplicateRace ==
    \A t, u \in Threads :
      (/\ Concurrent(t, u)
       /\ Returned(t, "vote") /\ Returned(u, "vote")
       /\ req[t].poll_id = req[u].poll_id
       /\ req[t].poll_id \in DOMAIN polls
       /\ polls[req[t].poll_id].status = OPEN
       /\ SameVoter(req[t].voter_name, req[u].voter_name)
       /\ OptionIndex(polls[req[t].poll_id], req[t].option_id) # 0
       /\ OptionIndex(polls[req[t].poll_id], req[u].option_id) # 0
       /\ \A j \in VotesOf(req[t].poll_id, req[t].voter_name) :
            accepted[req[t].poll_id][j].by \in {t, u})
      => /\ \/ Succeeded(result[t]) /\ DuplicateVoter(result[u])
            \/ Succeeded(result[u]) /\ DuplicateVoter(result[t])
         /\ Cardinality(VotesOf(req[t].poll_id, req[t].voter_name)) = 1
         /\ SumVotes(polls[req[t].poll_id].options)
              = Len(accepted[req[t].poll_id])

\* the race was run: one vote applied, the other refused as a duplicate
C4_Witness ==
    \E t, u \in Threads :
      /\ Concurrent(t, u)
      /\ Returned(t, "vote") /\ Returned(u, "vote")
      /\ req[t].poll_id = req[u].poll_id
      /\ SameVoter(req[t].voter_name, req[u].voter_name)
      /\ req[t].voter_name # req[u].voter_name
      /\ Succeeded(result[t]) /\ DuplicateVoter(result[u])
      /\ \A j \in VotesOf(req[t].poll_id, req[t].voter_name) :
           accepted[req[t].poll_id][j].by = t

(***************************************************************************)
(* C5.  Closing freezes the tally.  From the moment the status of a poll   *)
(* is closed, every step leaves its status, its option counts and its      *)
(* voter ledger as they are, and every vote on it that enters the store    *)
(* fails with AlreadyClosed.                                               *)
(***************************************************************************)
C5_CloseFreezes ==
    [][\A p \in DOMAIN polls :
         polls[p].status = CLOSED
         => /\ polls'[p].status = CLOSED
            /\ polls'[p].options = polls[p].options
            /\ polls'[p].voters = polls[p].voters
            /\ \A t \in Threads :
                 VoteDecided(t) /\ req[t].poll_id = p => AlreadyClosed(result'[t])]_vars

\* a vote raced with the close of a poll that holds a vote, and lost
C5_Witness ==
    \E t, u \in Threads :
      /\ Concurrent(t, u)
      /\ Returned(t, "vote") /\ AlreadyClosed(result[t])
      /\ Returned(u, "close") /\ Succeeded(result[u])
      /\ req[u].poll_id = req[t].poll_id
      /\ SumVotes(polls[req[t].poll_id].options) = 1

(***************************************************************************)
(* C6.  list() returns a consistent snapshot: the option counts of every   *)
(* poll view returned by list() are the counts the poll had at one         *)
(* instant, those after some number of its votes had been counted.         *)
(***************************************************************************)
\* the counts in view are those of its poll after the first k votes counted
SnapshotAt(view, k) ==
    \A i \in 1..Len(view.options) :
      view.options[i].votes = Tally(view.id, view.options[i].id, k)

C6_ListSnapshot ==
    \A t \in Threads :
      Returned(t, "list") /\ Succeeded(result[t])
      => \A v \in 1..Len(result[t].body) :
           \E k \in 0..Len(accepted[result[t].body[v].id]) :
             SnapshotAt(result[t].body[v], k)

(***************************************************************************)
(* C7.  Whenever the lock is free, closed_at of every poll is set if and   *)
(* only if its status is closed.                                           *)
(***************************************************************************)
C7_ClosedAtIffClosed ==
    lock = NoThread =>
      \A p \in DOMAIN polls : (polls[p].closed_at # None) <=> (polls[p].status = CLOSED)

\* a closed poll beside an open one
C7_Witness ==
    /\ lock = NoThread
    /\ \E p, q \in DOMAIN polls :
         /\ polls[p].status = CLOSED /\ polls[p].closed_at # None
         /\ polls[q].status = OPEN /\ polls[q].closed_at = None

(***************************************************************************)
(* C8.  close is idempotent: no step changes the closed_at of a poll once  *)
(* it is set, and a close of a closed poll leaves the poll as it is.       *)
(***************************************************************************)
C8_ClosedAtSetOnce ==
    [][\A p \in DOMAIN polls :
         polls[p].closed_at # None => polls'[p] = polls[p]]_vars

(***************************************************************************)
(* C9.  A failed call changes nothing: the step in which a vote or a close *)
(* fails with NotFound, AlreadyClosed, DuplicateVoter or InvalidOption is  *)
(* the first step of the call in the store, and leaves the store as it is. *)
(***************************************************************************)
C9_FailureChangesNothing ==
    [][\A t \in Threads :
         (/\ pc[t] # "done" /\ pc'[t] = "done"
          /\ req[t].op \in {"vote", "close"}
          /\ Failed(result'[t]))
         => /\ pc[t] \in {"vote", "close_poll"}
            /\ polls' = polls]_vars

\* a vote on a poll holding a vote failed with InvalidOption, a close with
\* NotFound
C9_Witness ==
    \E t, u \in Threads :
      /\ Returned(t, "vote") /\ InvalidOption(result[t])
      /\ SumVotes(polls[req[t].poll_id].options) = 1
      /\ Returned(u, "close") /\ NotFound(result[u])

(***************************************************************************)
(* C10.  A close by an admin of an id that names no poll has returned      *)
(* NotFound, reported as 404.                                              *)
(***************************************************************************)
C10_CloseNotFound ==
    \A t \in Threads :
      (/\ Returned(t, "close")
       /\ require_admin(req[t].x_admin_key)
       /\ req[t].poll_id \notin DOMAIN polls)
      => NotFound(result[t])

\* seen on the empty store, and beside a poll
C10_Witness ==
    \E t, u \in Threads :
      /\ Returned(t, "close") /\ NotFound(result[t])
      /\ Returned(u, "create") /\ Succeeded(result[u])

(***************************************************************************)
(* The labels a create request asks for, stated on the supplied list: the  *)
(* positions whose label is not empty after trimming and whose lowercase   *)
(* form is that of no earlier label.                                       *)
(***************************************************************************)
FirstOccurrences(value) ==
    { i \in 1..Len(value) :
        /\ Strip(value[i]) # <<>>
        /\ \A j \in 1..(i - 1) : Lower(Strip(value[j])) # Lower(Strip(value[i])) }

\* the k-th of them, in the order supplied
NthFirstOccurrence(value, k) ==
    CHOOSE i \in FirstOccurrences(value) :
      Cardinality({ j \in FirstOccurrences(value) : j < i }) = k - 1

SuppliedLabels(value) ==
    [k \in 1..Cardinality(FirstOccurrences(value)) |->
       Strip(value[NthFirstOccurrence(value, k)])]

Labels(options) == [i \in 1..Len(options) |-> options[i].label]

DistinctLowercase(labels) ==
    \A i, j \in 1..Len(labels) : i # j => Lower(labels[i]) # Lower(labels[j])

\* the step in which thread t inserts its poll
PollCreated(t) == pc[t] = "create_poll" /\ pc'[t] # "create_poll"

\* the step in which thread t returns from a served request of kind op
Returns(t, op) ==
    pc[t] = "to_response_closed_at" /\ pc'[t] = "done" /\ req[t].op = op

(***************************************************************************)
(* C11.  The options of a created poll are the supplied labels, trimmed,   *)
(* without the empty ones and without every label whose lowercase form is  *)
(* that of an earlier one, in the order of first appearance: at least two, *)
(* with pairwise distinct lowercase forms.  The view returned by create    *)
(* holds the same labels.                                                  *)
(***************************************************************************)
C11_CreatedOptions ==
    [][\A t \in Threads :
         /\ PollCreated(t)
            => /\ Len(polls') = Len(polls) + 1
               /\ LET labels == Labels(polls'[Len(polls')].options)
                  IN  /\ labels = SuppliedLabels(req[t].options)
                      /\ Len(labels) >= 2
                      /\ DistinctLowercase(labels)
         /\ Returns(t, "create")
            => LET view == result'[t].body[1]
               IN  /\ Len(view.options) = Len(SuppliedLabels(req[t].options))
                   /\ { view.options[i].label : i \in 1..Len(view.options) }
                        = { SuppliedLabels(req[t].options)[k] :
                              k \in 1..Len(SuppliedLabels(req[t].options)) }]_vars

\* four labels were supplied, two of them are the options of the poll
C11_Witness ==
    \E t \in Threads :
      /\ Returned(t, "create") /\ Succeeded(result[t])
      /\ Len(req[t].options) = 4
      /\ Labels(polls[result[t].body[1].id].options) = << <<"b">>, <<"A">> >>

(***************************************************************************)
(* C12.  A create request that passes the admin check and whose labels     *)
(* leave fewer than two options, or whose title is empty after trimming,   *)
(* fails with ValidationError; a poll is added only for a request that is  *)
(* neither; every poll of the store has at least two options.              *)
(***************************************************************************)
ValidationError(res) == res.code = HTTP_422_UNPROCESSABLE

Unacceptable(r) ==
    Cardinality(FirstOccurrences(r.options)) < 2 \/ Strip(r.title) = <<>>

C12_InvalidCreateRejected ==
    /\ [](\A t \in Threads :
            (/\ req[t].op = "create"
             /\ require_admin(req[t].x_admin_key)
             /\ Unacceptable(req[t]))
            => pc[t] = "done" /\ ValidationError(result[t]))
    /\ [](\A p \in DOMAIN polls : Len(polls[p].options) >= 2)
    /\ [][polls' # polls /\ Len(polls') # Len(polls)
           => \E t \in Threads : PollCreated(t) /\ ~Unacceptable(req[t])]_vars

\* a request with one label after de-duplication was refused beside a poll
C12_Witness ==
    \E t \in Threads :
      /\ Returned(t, "create") /\ ValidationError(result[t])
      /\ Strip(req[t].title) # <<>>
      /\ Cardinality(FirstOccurrences(req[t].options)) = 1
      /\ Len(polls) = 1

(***************************************************************************)
(* C13.  list() returns the polls newest first: of two polls in a result   *)
(* of list(), the one created later comes first.  Poll ids are handed out  *)
(* in the order of creation.                                               *)
(***************************************************************************)
C13_NewestFirst ==
    \A t \in Threads :
      Returned(t, "list") /\ Succeeded(result[t])
      => \A i, j \in 1..Len(result[t].body) :
           i < j => result[t].body[i].id > result[t].body[j].id

(***************************************************************************)
(* C14.  The store only grows: no step removes a poll, changes the ids or  *)
(* labels of the options of a poll, lowers a vote count, or opens a closed *)
(* poll.                                                                   *)
(***************************************************************************)
OptionNames(record) ==
    [i \in 1..Len(record.options) |->
       [id |-> record.options[i].id, label |-> record.options[i].label]]

C14_StoreOnlyGrows ==
    [][\A p \in DOMAIN polls :
         /\ p \in DOMAIN polls'
         /\ polls'[p].id = polls[p].id
         /\ OptionNames(polls'[p]) = OptionNames(polls[p])
         /\ \A i \in 1..Len(polls[p].options) :
              polls'[p].options[i].votes >= polls[p].options[i].votes
         /\ polls[p].status = CLOSED => polls'[p].status = CLOSED]_vars

\* a second poll was created beside a closed poll that holds a vote
C14_Witness ==
    /\ Len(polls) = 2
    /\ polls[1].status = CLOSED
    /\ SumVotes(polls[1].options) = 1
    /\ \E t \in Threads : Returned(t, "create") /\ Succeeded(result[t])

(***************************************************************************)
(* C15.  The admin check gates create and close only.  A create or close   *)
(* request without the keyword is answered 403 and never enters the store; *)
(* the store changes only in steps of threads whose request is a vote, or  *)
(* a create or close that carries the keyword; list and vote requests,     *)
(* which carry no key, are never answered 403, and a list always succeeds. *)
(***************************************************************************)
Forbidden(res) == res.code = HTTP_403_FORBIDDEN /\ res.detail = AdminRequired

Gated(r) == r.op \in {"create", "close"}

C15_AdminGate ==
    /\ [](\A t \in Threads :
            /\ Gated(req[t]) /\ req[t].x_admin_key # ADMIN_KEYWORD
               => pc[t] = "done" /\ Forbidden(result[t])
            /\ Gated(req[t]) /\ req[t].x_admin_key = ADMIN_KEYWORD
               => ~Forbidden(result[t])
            /\ req[t].op \in {"list", "vote"}
               => req[t].x_admin_key = "" /\ ~Forbidden(result[t])
            /\ Returned(t, "list") => Succeeded(result[t]))
    /\ [][polls' # polls
           => \E t \in Threads :
                /\ pc'[t] # pc[t]
                /\ req[t].op \in {"create", "close", "vote"}
                /\ Gated(req[t]) => req[t].x_admin_key = ADMIN_KEYWORD]_vars

\* a close under another word was refused, a vote without a key was served
C15_Witness ==
    \E t, u \in Threads :
      /\ Returned(t, "close") /\ Forbidden(result[t])
      /\ req[t].x_admin_key = "trentadmin"
      /\ Returned(u, "vote") /\ Succeeded(result[u])
      /\ polls[req[u].poll_id].status = OPEN

(***************************************************************************)
(* C16.  A vote that breaks several preconditions reports the first that   *)
(* applies in the order NotFound, AlreadyClosed, DuplicateVoter,           *)
(* InvalidOption: an unknown poll gives NotFound; a closed poll gives      *)
(* AlreadyClosed whoever votes for whatever; on an open poll a voter who   *)
(* has voted gets DuplicateVoter whatever the option; a new voter naming   *)
(* no option of the poll gets InvalidOption.                               *)
(***************************************************************************)
C16_FirstFailureReported ==
    [][\A t \in Threads :
         VoteDecided(t) =>
           LET p == req[t].poll_id
           IN  /\ p \notin DOMAIN polls => NotFound(result'[t])
               /\ p \in DOMAIN polls /\ polls[p].status = CLOSED
                  => AlreadyClosed(result'[t])
               /\ (/\ p \in DOMAIN polls /\ polls[p].status = OPEN
                   /\ VotesOf(p, req[t].voter_name) # {})
                  => DuplicateVoter(result'[t])
               /\ (/\ p \in DOMAIN polls /\ polls[p].status = OPEN
                   /\ VotesOf(p, req[t].voter_name) = {}
                   /\ \A i \in 1..Len(polls[p].options) :
                        polls[p].options[i].id # req[t].option_id)
                  => InvalidOption(result'[t])]_vars

\* a voter who has voted named an option the poll does not have, and was
\* refused as a duplicate
C16_Witness ==
    \E t \in Threads :
      /\ Returned(t, "vote") /\ DuplicateVoter(result[t])
      /\ VotesOf(req[t].poll_id, req[t].voter_name) # {}
      /\ OptionIndex(polls[req[t].poll_id], req[t].option_id) = 0

(***************************************************************************)
(* C17.  Every poll view returned by list, create, vote or close has       *)
(* closed_at set exactly when its status is closed.                        *)
(***************************************************************************)
C17_ViewClosedAtIffClosed ==
    \A t \in Threads :
      pc[t] = "done" /\ Succeeded(result[t])
      => \A v \in 1..Len(result[t].body) :
           (result[t].body[v].closed_at # None)
             <=> (result[t].body[v].status = CLOSED)

(***************************************************************************)
(* C18.  The view returned by a successful vote shows the poll as it was   *)
(* right after that vote was counted: open, each option with the count it  *)
(* had then.                                                               *)
(***************************************************************************)
\* the position of the vote of thread t's current request among the votes
\* counted for poll p
OwnVote(t, p) == { j \in DOMAIN accepted[p] : accepted[p][j].by = t }

C18_VoteViewIsOwnState ==
    \A t \in Threads :
      Returned(t, "vote") /\ Succeeded(result[t])
      => LET view == result[t].body[1]
         IN  /\ view.status = OPEN
             /\ \A j \in OwnVote(t, view.id) : SnapshotAt(view, j)

(***************************************************************************)
(* C19.  Between operations the count of every option is the number of     *)
(* voter keys the ledger maps to its id, and every ledger value is the id  *)
(* of an option of the same poll; no step removes or changes a ledger      *)
(* entry.                                                                  *)
(***************************************************************************)
KeysFor(record, option_id) ==
    { k \in DOMAIN record.voters : record.voters[k] = option_id }

C19_TallyMatchesLedger ==
    /\ [](lock = NoThread =>
            \A p \in DOMAIN polls :
              /\ \A i \in 1..Len(polls[p].options) :
                   polls[p].options[i].votes
                     = Cardinality(KeysFor(polls[p], polls[p].options[i].id))
              /\ \A k \in DOMAIN polls[p].voters :
                   \E i \in 1..Len(polls[p].options) :
                     polls[p].options[i].id = polls[p].voters[k])
    /\ [][\A p \in DOMAIN polls :
           \A k \in DOMAIN polls[p].voters :
             /\ k \in DOMAIN polls'[p].voters
             /\ polls'[p].voters[k] = polls[p].voters[k]]_vars

\* two voters chose the same option
C19_Witness ==
    /\ lock = NoThread
    /\ \E p \in DOMAIN polls :
         \E i \in 1..Len(polls[p].options) :
           /\ polls[p].options[i].votes = 2
           /\ Cardinality(KeysFor(polls[p], polls[p].options[i].id)) = 2
    /\ \E t \in Threads : Returned(t, "vote") /\ Succeeded(result[t])

(***************************************************************************)
(* C20.  The lock is released on every path: a thread that has returned,   *)
(* normally or with a failure, does not hold it, and a thread that is not  *)
(* in a with block never does; under fair scheduling every call returns.   *)
(***************************************************************************)
InWithBlock(t) == pc[t] \in {"close_poll_closed_at", "vote_store", "vote_voters"}

C20_EveryCallReturns ==
    /\ [](\A t \in Threads : lock = t => InWithBlock(t))
    /\ [](lock \in Threads \cup {NoThread})
    /\ \A t \in Threads : (pc[t] \notin {"idle", "done"}) ~> (pc[t] = "done")

\* a vote that waited for the lock while another vote was counted has
\* returned with a failure, and the lock is free
C20_Witness ==
    /\ lock = NoThread
    /\ \E t, u \in Threads :
         /\ Concurrent(t, u)
         /\ Returned(t, "vote") /\ InvalidOption(result[t])
         /\ Returned(u, "vote") /\ Succeeded(result[u])
         /\ req[t].poll_id = req[u].poll_id

=============================================================================
